---- MODULE Spec2Model ----
(***************************************************************************)
(* Model of the extraction-and-normalisation core of pdf2excel.            *)
(*                                                                         *)
(*  - detect_bank / get_parser / parse_pdf   backend/parser_factory.py     *)
(*  - UniversalBankExtractor.extract_from_pdf (raw extraction, dict        *)
(*    result)                    backend/extractors/universal_extractor_v2 *)
(*  - UniversalBankExtractor.extract_from_pdf (legacy, frame result)       *)
(*                               backend/extractors/universal_extractor    *)
(*  - the parse() entry of every registered parser  backend/parsers/*.py   *)
(*                                                                         *)
(* A text is modelled at word granularity: a sequence of words, with       *)
(* substring search as contiguous-subsequence search.  A text layer is a   *)
(* record of its stripped length and its words.                            *)
(***************************************************************************)
EXTENDS Integers, Sequences, FiniteSets, TLC

\* ------------------------------------------------------------------------
\* Bounds of the model
\* ------------------------------------------------------------------------
MaxWords == 2

MaxFileWords == 1

MaxDocWords == 1

MaxTables == 2

\* ------------------------------------------------------------------------
\* Words and texts
\* ------------------------------------------------------------------------
Words == {"SUPERVIELLE", "USD", "GALICIA", "MAS", "comafi", "MACRO", "NACION"}

FileWords == {"USD", "MAS", "NACION"}

\* str.upper() on one word
Upper(w) == IF w = "comafi" THEN "COMAFI" ELSE w

UpperSeq(s) == [i \in DOMAIN s |-> Upper(s[i])]

SeqsUpTo(S, n) == UNION {[1..k -> S] : k \in 0..n}

\* Python `kw in haystack`, at word granularity
Contains(h, kw) ==
  \E i \in 1..(Len(h) - Len(kw) + 1) : SubSeq(h, i, i + Len(kw) - 1) = kw

\* ------------------------------------------------------------------------
\* Parser registry
\* ------------------------------------------------------------------------
PARSERS ==
  << "SUPERVIELLE_USD", "SUPERVIELLE", "GALICIA_MAS", "GALICIA", "ITAU",
     "MACRO", "COMAFI", "BPN", "RIOJA", "HIPOTECARIO", "MERCADOPAGO",
     "SANTANDER", "NACION", "PROVINCIA", "SAN_JUAN", "PATAGONIA", "BBVA",
     "ICBC", "CIUDAD", "CREDICOOP", "HSBC", "GENERIC" >>

Banks == {PARSERS[i] : i \in DOMAIN PARSERS}

\* Parsers whose module is not part of the sources at hand
MissingParsers == {"ITAU", "BPN", "RIOJA", "CIUDAD", "CREDICOOP"}

\* BaseParser declares detect and parse abstract: a subclass that defines no
\* detect cannot be instantiated (TypeError).
AbstractParsers == {"SANTANDER", "NACION", "SAN_JUAN"}

Instantiable(bank) == bank \notin AbstractParsers

\* Detection keywords of a parser whose module is not at hand: its own
\* institution identifier (parser descriptor, "detection keywords/predicate")
MissingKeywords(bank) == << <<bank>> >>

\* DETECTION_KEYWORDS / KEYWORDS class attribute of each parser
Keywords(bank) ==
  CASE bank = "SUPERVIELLE_USD" ->
         << <<"SUPERVIELLE", "USD">>, <<"SUPERVIELLE", "EN", "DOLARES">>,
            <<"SUPERVIELLE", "RESUMEN", "USD">> >>
    [] bank = "SUPERVIELLE" ->
         << <<"SUPERVIELLE">>, <<"CUENTA", "CORRIENTE", "EN", "U$S">>,
            <<"BANCO", "SUPERVIELLE">> >>
    [] bank = "GALICIA_MAS" ->
         << <<"GALICIA", "MAS">>, <<"CUENTA", "G+">>, <<"GALICIA", "MÁS">> >>
    [] bank = "GALICIA" ->
         << <<"BANCO", "GALICIA">>, <<"GALICIA">>,
            <<"OFFICE", "BANKING", "GALICIA">> >>
    [] bank = "MACRO" ->
         << <<"BANCO", "MACRO">>, <<"MACRO">>, <<"FIDEICOMISO">>,
            <<"CUENTA", "CORRIENTE", "ESPECIAL">> >>
    [] bank = "COMAFI" -> << <<"BANCO", "COMAFI">>, <<"COMAFI">> >>
    [] bank = "HIPOTECARIO" ->
         << <<"BANCO", "HIPOTECARIO">>, <<"HIPOTECARIO">> >>
    [] bank = "MERCADOPAGO" -> << <<"MERCADO", "PAGO">>, <<"MERCADOPAGO">> >>
    [] bank = "NACION" ->
         << <<"BANCO", "DE", "LA", "NACION">>, <<"NACION">>, <<"SSI">> >>
    [] bank = "PROVINCIA" -> << <<"BANCO", "PROVINCIA">>, <<"PROVINCIA">> >>
    [] bank = "PATAGONIA" ->
         << <<"BANCO", "PATAGONIA">>, <<"PATAGONIA", "EBANK">>,
            <<"ESTADO", "DE", "CUENTAS", "UNIFICADO">> >>
    [] bank = "ICBC" ->
         << <<"ICBC">>,
            <<"INDUSTRIAL", "AND", "COMMERCIAL", "BANK", "OF", "CHINA",
              "(ARGENTINA)">> >>
    [] bank = "HSBC" ->
         << <<"HSBC">>, <<"HSBC", "ARGENTINA">>, <<"HSBC", "BANK">> >>
    [] bank \in MissingParsers -> MissingKeywords(bank)
    [] OTHER -> << >>

AnyKeywordIn(bank, h) ==
  \E k \in DOMAIN Keywords(bank) : Contains(h, Keywords(bank)[k])

\* parser.detect(text, filename)
Detect(bank, text, filename) ==
  LET haystack == UpperSeq(text \o filename)
  IN  CASE bank = "SUPERVIELLE_USD" ->
             /\ Contains(haystack, <<"SUPERVIELLE">>)
             /\ \/ Contains(haystack, <<"USD">>)
                \/ Contains(haystack, <<"DOLARES">>)
        [] bank = "GALICIA_MAS" ->
             /\ Contains(haystack, <<"GALICIA">>)
             /\ Contains(haystack, <<"MAS">>)
        [] bank = "MERCADOPAGO" ->
             \/ Contains(haystack, <<"MERCADO", "PAGO">>)
             \/ Contains(haystack, <<"MERCADOPAGO">>)
        [] bank = "BBVA" -> Contains(haystack, <<"BBVA">>)
        [] bank \in {"SUPERVIELLE", "PATAGONIA", "ICBC"} ->
             \/ AnyKeywordIn(bank, UpperSeq(text))
             \/ AnyKeywordIn(bank, UpperSeq(filename))
        [] bank = "GENERIC" -> TRUE
        [] OTHER -> AnyKeywordIn(bank, haystack)

\* the keyword fallback of detect_bank
KeywordFallback(bank, text, filename) ==
  \/ AnyKeywordIn(bank, UpperSeq(text))
  \/ AnyKeywordIn(bank, UpperSeq(filename))

RaisedDetect == "RAISE"

RECURSIVE DetectFrom(_, _, _)
DetectFrom(i, text, filename) ==
  IF i > Len(PARSERS) THEN "GENERIC"
  ELSE LET bank == PARSERS[i]
       IN  IF bank = "GENERIC" THEN DetectFrom(i + 1, text, filename)
           ELSE IF ~Instantiable(bank) THEN RaisedDetect
           ELSE IF Detect(bank, text, filename) THEN bank
           ELSE IF KeywordFallback(bank, text, filename) THEN bank
           ELSE DetectFrom(i + 1, text, filename)

detect_bank(text, filename) == DetectFrom(1, text, filename)

\* ------------------------------------------------------------------------
\* State
\* ------------------------------------------------------------------------
VARIABLES
  dText, dFile, dRes,                          \* one call of detect_bank
  pc, doc, raw, calls, bank_name, parseCalls, out,  \* one run of parse_pdf
  lpc, ldoc, lcalls, lout,                     \* one run of the legacy extract_from_pdf
  pBank, pShape, pFound, pOut,                 \* one call of parser.parse
  fmode, fpc, drafts, recs,                    \* one finalization of a parser's rows
  callIn, callOut,                             \* one call of a helper function
  batch, bpos, outcomes, inferred_year         \* one run over a batch of documents

detectVars == <<dText, dFile, dRes>>

pipeVars == <<pc, doc, raw, calls, bank_name, parseCalls, out>>

legacyVars == <<lpc, ldoc, lcalls, lout>>

parseVars == <<pBank, pShape, pFound, pOut>>

finVars == <<fmode, fpc, drafts, recs>>

callVars == <<callIn, callOut>>

batchVars == <<batch, bpos, outcomes, inferred_year>>

vars == <<detectVars, pipeVars, legacyVars, parseVars, finVars, callVars, batchVars>>

Idle == "idle"

DetectIdle == dText = <<>> /\ dFile = <<>> /\ dRes = Idle

PipeIdle ==
  /\ pc = Idle /\ doc = Idle /\ raw = Idle /\ calls = <<>>
  /\ bank_name = Idle /\ parseCalls = <<>> /\ out = Idle

LegacyIdle == lpc = Idle /\ ldoc = Idle /\ lcalls = <<>> /\ lout = Idle

ParseIdle == pBank = Idle /\ pShape = Idle /\ pFound = FALSE /\ pOut = Idle

FinIdle == fmode = Idle /\ fpc = Idle /\ drafts = <<>> /\ recs = <<>>

CallIdle == callIn = Idle /\ callOut = Idle

BatchIdle == batch = Idle /\ bpos = Idle /\ outcomes = <<>> /\ inferred_year = Idle

\* ------------------------------------------------------------------------
\* detect_bank on its own
\* ------------------------------------------------------------------------
Pending == "pending"

InitDetect ==
  /\ dText \in SeqsUpTo(Words, MaxWords)
  /\ dFile \in SeqsUpTo(FileWords, MaxFileWords)
  /\ dRes = Pending
  /\ PipeIdle /\ LegacyIdle /\ ParseIdle
  /\ FinIdle /\ CallIdle /\ BatchIdle

DetectBank ==
  /\ dRes = Pending
  /\ dRes' = detect_bank(dText, dFile)
  /\ UNCHANGED <<dText, dFile, pipeVars, legacyVars, parseVars, finVars, callVars, batchVars>>

NextDetect == DetectBank

SpecDetect == InitDetect /\ [][NextDetect]_vars

\* ------------------------------------------------------------------------
\* parser.parse(raw_data, filename=...) by the shape of raw_data
\* ------------------------------------------------------------------------
Shapes == {"dict", "str", "grids", "lines", "empty_list"}

Frame(rows) == [kind |-> "frame", rows |-> rows]

Raise(err) == [kind |-> "raise", rows |-> <<>>, err |-> err]

EmptyFrame == Frame(<<>>)

\* parsers written as parse(self, pdf_path, text=""): the keyword argument
\* filename= of the caller is not accepted
PathSignatureParsers == {"SUPERVIELLE", "GALICIA", "PATAGONIA", "ICBC"}

\* parsers that dispatch on str / list of grids / list of str and answer an
\* empty frame to anything else
DispatchingParsers ==
  {"SUPERVIELLE_USD", "GALICIA_MAS", "MACRO", "COMAFI", "HIPOTECARIO",
   "MERCADOPAGO", "PROVINCIA", "HSBC"}

BankRows(bank) == <<[by |-> bank]>>

\* BBVAParser.parse: str and list are taken as lines, anything else is an
\* empty frame; _infer_year(raw_data, filename) then runs re.search on
\* raw_data itself
BBVAParse(shape, found) ==
  IF shape = "str" THEN Frame(IF found THEN BankRows("BBVA") ELSE <<>>)
  ELSE IF shape \in {"grids", "lines", "empty_list"} THEN Raise("TypeError")
  ELSE EmptyFrame

DispatchingParse(bank, shape, found) ==
  IF shape \in {"str", "grids", "lines"}
  THEN Frame(IF found THEN BankRows(bank) ELSE <<>>)
  ELSE EmptyFrame

\* a parser whose module is not at hand: tolerates every shape
MissingParse(bank, shape, found) ==
  Frame(IF found /\ shape # "empty_list" THEN BankRows(bank) ELSE <<>>)

\* found: whether the parser recognises transactions in the content
ParseShape(bank, shape, found) ==
  CASE bank \in PathSignatureParsers -> Raise("TypeError")
    [] bank = "BBVA" -> BBVAParse(shape, found)
    [] bank \in DispatchingParsers -> DispatchingParse(bank, shape, found)
    [] bank \in MissingParsers -> MissingParse(bank, shape, found)

ShapeBanks ==
  PathSignatureParsers \cup {"BBVA"} \cup DispatchingParsers \cup MissingParsers

\* ------------------------------------------------------------------------
\* Documents and raw extraction (universal_extractor_v2)
\* ------------------------------------------------------------------------
\* outcome of a collaborator that raises instead of returning a size
Raising == 0 - 1

TextLens == {0, 100, 101}

OcrLens == {0, 50, 51}

DocWords == {"GALICIA", "comafi", "MACRO", "NACION"}

DocFileWords == {"MAS"}

HasContent(x) == x # Raising /\ x > 0

Docs ==
  { d \in [ tables : {Raising} \cup 0..MaxTables,
            text : {Raising} \cup TextLens,
            ocr : {Raising} \cup OcrLens,
            words : SeqsUpTo(DocWords, MaxDocWords),
            file : SeqsUpTo(DocFileWords, MaxFileWords),
            genTab : {"raise", "none", "rows", "filtered"},
            genText : {"none", "rows"} ] :
      /\ (~HasContent(d.tables)) => d.genTab = "none"
      /\ (~HasContent(d.text) /\ ~HasContent(d.ocr)) =>
            (d.words = <<>> /\ d.genText = "none") }

NoText == [len |-> 0, words |-> <<>>]

TextLayer(len, words) == [len |-> len, words |-> IF len > 0 THEN words ELSE <<>>]

\* _extract_tables_camelot: number of non-empty cleaned tables, [] on error
extract_tables_camelot(d) == IF d.tables = Raising THEN 0 ELSE d.tables

\* _extract_text_pdfplumber: the text layer, "" on error
extract_text_pdfplumber(d) ==
  IF d.text = Raising THEN NoText ELSE TextLayer(d.text, d.words)

\* _extract_text_ocr: the concatenated page texts, "" on error
extract_text_ocr(d) ==
  IF d.ocr = Raising THEN NoText ELSE TextLayer(d.ocr, d.words)

MIN_TEXT_CHARS == 100

MIN_OCR_CHARS == 50

\* a text layer of any size counts as sufficient
TextSufficient_AnySize(t) == t.len > 0

TextSufficient(t) == t.len > MIN_TEXT_CHARS

OcrSufficient(t) == t.len > MIN_OCR_CHARS

FailedResult == [text |-> NoText, tables |-> 0, method |-> "failed"]

\* GenericParser.parse on a raw-result dict
GenericParse(r, d) ==
  IF r.tables > 0 /\ d.genTab = "raise" THEN Raise("IndexError")
  ELSE IF r.tables > 0 /\ d.genTab = "rows"
       THEN Frame(<<[by |-> "GENERIC", from |-> "tables"]>>)
  ELSE IF r.tables > 0 /\ d.genTab = "filtered" THEN EmptyFrame
  ELSE IF r.text.len > 0 /\ d.genText = "rows"
       THEN Frame(<<[by |-> "GENERIC", from |-> "text"]>>)
  ELSE EmptyFrame

\* parser.parse(raw_data, filename=pdf_path) as parse_pdf calls it: raw_data
\* is the dict of the raw extraction, which no specific parser reads rows from
ParserParse(b, r, d) ==
  IF b = "GENERIC" THEN GenericParse(r, d)
  ELSE ParseShape(b, "dict", FALSE)

\* ------------------------------------------------------------------------
\* parse_pdf: extract_from_pdf, detect_bank, get_parser, parser.parse
\* ------------------------------------------------------------------------
NoOut == [kind |-> "none", rows |-> <<>>]

NoBank == "none"

\* get_parser: the registered class (GenericParser for an unknown name),
\* instantiated
get_parser(b) ==
  IF b \notin Banks THEN "GENERIC"
  ELSE IF Instantiable(b) THEN b ELSE RaisedDetect

\* the except branch re-raises without trying the generic parser
FallbackAllowed_Never(b) == FALSE

\* `if bank_name != "GENERIC"` in the except branch of parse_pdf
FallbackAllowed(b) == b # "GENERIC"

Init ==
  /\ doc \in Docs
  /\ pc = "tables"
  /\ raw = FailedResult
  /\ calls = <<>>
  /\ bank_name = NoBank
  /\ parseCalls = <<>>
  /\ out = NoOut
  /\ DetectIdle /\ LegacyIdle /\ ParseIdle
  /\ FinIdle /\ CallIdle /\ BatchIdle

\* PASO 1: Camelot
ExtractTables ==
  /\ pc = "tables"
  /\ calls' = Append(calls, "tables")
  /\ LET n == extract_tables_camelot(doc)
     IN  IF n > 0
         THEN /\ raw' = [raw EXCEPT !.tables = n, !.method = "camelot"]
              /\ pc' = "text_for_detection"
         ELSE /\ raw' = raw
              /\ pc' = "text"
  /\ UNCHANGED <<doc, bank_name, parseCalls, out, detectVars, legacyVars, parseVars, finVars, callVars, batchVars>>

\* the text layer is read after a table hit as well, for bank detection
ExtractTextForDetection ==
  /\ pc = "text_for_detection"
  /\ calls' = Append(calls, "text")
  /\ raw' = [raw EXCEPT !.text = extract_text_pdfplumber(doc)]
  /\ pc' = "extracted"
  /\ UNCHANGED <<doc, bank_name, parseCalls, out, detectVars, legacyVars, parseVars, finVars, callVars, batchVars>>

\* PASO 2: PDFPlumber
ExtractText ==
  /\ pc = "text"
  /\ calls' = Append(calls, "text")
  /\ LET t == extract_text_pdfplumber(doc)
     IN  IF TextSufficient(t)
         THEN /\ raw' = [raw EXCEPT !.text = t, !.method = "pdfplumber"]
              /\ pc' = "extracted"
         ELSE /\ raw' = raw
              /\ pc' = "ocr"
  /\ UNCHANGED <<doc, bank_name, parseCalls, out, detectVars, legacyVars, parseVars, finVars, callVars, batchVars>>

\* PASO 3: OCR
ExtractOcr ==
  /\ pc = "ocr"
  /\ calls' = Append(calls, "ocr")
  /\ LET t == extract_text_ocr(doc)
     IN  IF OcrSufficient(t)
         THEN raw' = [raw EXCEPT !.text = t, !.method = "ocr"]
         ELSE raw' = raw
  /\ pc' = "extracted"
  /\ UNCHANGED <<doc, bank_name, parseCalls, out, detectVars, legacyVars, parseVars, finVars, callVars, batchVars>>

\* `if not raw_data['text'] and not raw_data['tables']: raise ValueError`
CheckExtracted ==
  /\ pc = "extracted"
  /\ IF raw.text.len = 0 /\ raw.tables = 0
     THEN /\ out' = Raise("ValueError")
          /\ pc' = "done"
     ELSE /\ out' = out
          /\ pc' = "detect"
  /\ UNCHANGED <<doc, raw, calls, bank_name, parseCalls, detectVars, legacyVars, parseVars, finVars, callVars, batchVars>>

\* bank_name = detect_bank(raw_data['text'], pdf_path)
DetectStep ==
  /\ pc = "detect"
  /\ LET b == detect_bank(raw.text.words, doc.file)
     IN  IF b = RaisedDetect
         THEN /\ out' = Raise("TypeError")
              /\ bank_name' = bank_name
              /\ pc' = "done"
         ELSE /\ out' = out
              /\ bank_name' = b
              /\ pc' = "parse"
  /\ UNCHANGED <<doc, raw, calls, parseCalls, detectVars, legacyVars, parseVars, finVars, callVars, batchVars>>

\* parser = get_parser(bank_name); df = parser.parse(raw_data, filename=pdf_path)
ParseStep ==
  /\ pc = "parse"
  /\ IF get_parser(bank_name) = RaisedDetect
     THEN /\ out' = Raise("TypeError")
          /\ parseCalls' = parseCalls
          /\ pc' = "done"
     ELSE LET res == ParserParse(get_parser(bank_name), raw, doc)
          IN  /\ parseCalls' =
                   Append(parseCalls, [parser |-> get_parser(bank_name), raw |-> raw])
              /\ IF res.kind = "frame"
                 THEN /\ out' = res
                      /\ pc' = "done"
                 ELSE IF FallbackAllowed(bank_name)
                 THEN /\ out' = out
                      /\ pc' = "generic"
                 ELSE /\ out' = res
                      /\ pc' = "done"
  /\ UNCHANGED <<doc, raw, calls, bank_name, detectVars, legacyVars, parseVars, finVars, callVars, batchVars>>

\* generic = GenericParser(); return generic.parse(raw_data, filename=pdf_path)
GenericFallback ==
  /\ pc = "generic"
  /\ parseCalls' = Append(parseCalls, [parser |-> "GENERIC", raw |-> raw])
  /\ out' = GenericParse(raw, doc)
  /\ pc' = "done"
  /\ UNCHANGED <<doc, raw, calls, bank_name, detectVars, legacyVars, parseVars, finVars, callVars, batchVars>>

Next ==
  \/ ExtractTables
  \/ ExtractTextForDetection
  \/ ExtractText
  \/ ExtractOcr
  \/ CheckExtracted
  \/ DetectStep
  \/ ParseStep
  \/ GenericFallback

Spec == Init /\ [][Next]_vars

\* ------------------------------------------------------------------------
\* Properties of parse_pdf and of the raw extraction
\* ------------------------------------------------------------------------
StrategyOrder == <<"tables", "text", "ocr">>

IsPrefix(a, b) == Len(a) <= Len(b) /\ SubSeq(b, 1, Len(a)) = a

Called(s) == \E i \in DOMAIN calls : calls[i] = s

Count(seq, x) == Cardinality({i \in DOMAIN seq : seq[i] = x})

\* what the document gives to each strategy (0 when the strategy raises)
TablesYield == IF doc.tables = Raising THEN 0 ELSE doc.tables

TextYield == IF doc.text = Raising THEN 0 ELSE doc.text

OcrYield == IF doc.ocr = Raising THEN 0 ELSE doc.ocr

ExtractionOver == pc \in {"extracted", "detect", "parse", "generic", "done"}

FirstParse == ParserParse(parseCalls[1].parser, parseCalls[1].raw, doc)

SpecificReturnedEmpty ==
  /\ Len(parseCalls) >= 1
  /\ parseCalls[1].parser # "GENERIC"
  /\ FirstParse = EmptyFrame

SpecificRaised ==
  /\ Len(parseCalls) >= 1
  /\ parseCalls[1].parser # "GENERIC"
  /\ FirstParse.kind = "raise"

GenericCalls == {i \in DOMAIN parseCalls : parseCalls[i].parser = "GENERIC"}

\* C2: when the institution-specific parser returns an empty result and the
\* institution is not the generic one, the generic parser is invoked exactly
\* once, on the raw extraction result the specific parser received.
C2_EmptyResultFallsBackToGeneric ==
  (pc = "done" /\ SpecificReturnedEmpty) =>
     /\ Cardinality(GenericCalls) = 1
     /\ \A i \in GenericCalls : parseCalls[i].raw = parseCalls[1].raw

\* PREFER_TABLES of the parser class (BaseParser default, or declared)
PREFER_TABLES(b) ==
  b \in DispatchingParsers \cup AbstractParsers \cup {"GALICIA", "GENERIC"}

\* C3: when a parser with a table-input preference returns an empty result
\* on a raw result that was not grid-based, table extraction is re-run and
\* the parser is invoked once more, exactly once; table extraction is never
\* run more than twice for a document.
C3_TableRetryOnce ==
  /\ Count(calls, "tables") <= 2
  /\ (pc = "done" /\ SpecificReturnedEmpty /\ PREFER_TABLES(parseCalls[1].parser)
        /\ parseCalls[1].raw.method # "camelot") =>
       /\ Count(calls, "tables") = 2
       /\ Cardinality({i \in DOMAIN parseCalls :
                         parseCalls[i].parser = parseCalls[1].parser}) = 2

\* C5: no exception propagates out of parse_pdf: every document gets an
\* empty-result value or a frame.
C5_NeverRaises == out.kind # "raise"

C7_FinalEqualsGenericAlone ==
  (pc = "done" /\ SpecificReturnedEmpty /\ GenericParse(raw, doc).kind = "frame") =>
     out = GenericParse(raw, doc)

\* ------------------------------------------------------------------------
\* Properties of detect_bank
\* ------------------------------------------------------------------------
\* the class defines a detect method of its own
HasDetect(b) == b \notin AbstractParsers

\* the detection predicate or the keyword list of a registry entry matches
Matches(b, text, filename) ==
  \/ HasDetect(b) /\ Detect(b, text, filename)
  \/ KeywordFallback(b, text, filename)

MatchingEntries(text, filename) ==
  {i \in DOMAIN PARSERS :
     PARSERS[i] # "GENERIC" /\ Matches(PARSERS[i], text, filename)}

Earliest(idx) == CHOOSE i \in idx : \A j \in idx : i <= j

DetectDone == dRes \notin {Idle, Pending}

\* C8: detect_bank returns the earliest registry entry (GENERIC excluded)
\* whose detection predicate or keyword list matches the text or the
\* filename; SUPERVIELLE_USD wins over SUPERVIELLE and GALICIA_MAS over
\* GALICIA when both match.
C8_EarliestMatchWins ==
  (DetectDone /\ MatchingEntries(dText, dFile) # {}) =>
     dRes = PARSERS[Earliest(MatchingEntries(dText, dFile))]

\* C9: when no registered non-generic parser matches, detect_bank returns
\* "GENERIC" and does not raise.
C9_NoMatchGivesGeneric ==
  (DetectDone /\ MatchingEntries(dText, dFile) = {}) => dRes = "GENERIC"

\* ------------------------------------------------------------------------
\* parser.parse on its own
\* ------------------------------------------------------------------------
\* GenericParser.parse reads raw_data.get('tables') and raw_data.get('text')
GenericParseShape(shape, found) ==
  IF shape = "dict"
  THEN Frame(IF found THEN BankRows("GENERIC") ELSE <<>>)
  ELSE Raise("AttributeError")

ParseAnyShape(b, shape, found) ==
  IF b = "GENERIC" THEN GenericParseShape(shape, found)
  ELSE ParseShape(b, shape, found)

InitParse ==
  /\ pBank \in ShapeBanks \cup {"GENERIC"}
  /\ pShape \in Shapes
  /\ pFound \in BOOLEAN
  /\ pOut = NoOut
  /\ DetectIdle /\ PipeIdle /\ LegacyIdle
  /\ FinIdle /\ CallIdle /\ BatchIdle

ParseCall ==
  /\ pOut = NoOut
  /\ pOut' = ParseAnyShape(pBank, pShape, pFound)
  /\ UNCHANGED <<pBank, pShape, pFound, detectVars, pipeVars, legacyVars, finVars, callVars, batchVars>>

NextParse == ParseCall

SpecParse == InitParse /\ [][NextParse]_vars

\* the input shapes a parser is written for
Usable(b) ==
  CASE b \in DispatchingParsers -> {"str", "grids", "lines"}
    [] b = "BBVA" -> {"str", "lines"}
    [] b = "GENERIC" -> {"dict"}
    [] b \in MissingParsers -> {"str", "grids", "lines"}
    [] OTHER -> {}

\* C10: a parser given raw input of a shape it cannot use returns an empty
\* result and never raises.
C10_WrongShapeGivesEmpty ==
  (pOut # NoOut /\ pShape \notin Usable(pBank)) => pOut = EmptyFrame

\* ------------------------------------------------------------------------
\* Legacy UniversalBankExtractor.extract_from_pdf (frame result)
\* ------------------------------------------------------------------------
Layouts == {"separate_all", "single_signed", "signed_separate"}

LegacyDocs ==
  { d \in [ layout : Layouts \cup {"none", "unknown"},
            stream : {Raising} \cup 0..MaxTables,
            lattice : {Raising, 0, 1},
            text : {Raising, 0, 1},
            ocr : {Raising, 0, 1},
            cfgRows : BOOLEAN,
            tabRows : BOOLEAN,
            textRows : BOOLEAN,
            ocrRows : BOOLEAN ] :
      /\ d.layout # "none" => d.text = 1
      /\ d.cfgRows => (HasContent(d.stream) /\ d.layout \in Layouts)
      /\ d.tabRows => HasContent(d.stream)
      /\ d.textRows => d.text = 1
      /\ d.ocrRows => d.ocr = 1 }

LegacyRows(from) == <<[by |-> "LEGACY", from |-> from]>>

\* all strategies failed: an exception instead of the empty frame
LegacyAllFailed_Raises == Raise("ValueError")

\* the last statement of _parse_generic: return pd.DataFrame()
LegacyAllFailed == EmptyFrame

InitLegacy ==
  /\ ldoc \in LegacyDocs
  /\ lpc = "start"
  /\ lcalls = <<>>
  /\ lout = NoOut
  /\ DetectIdle /\ PipeIdle /\ ParseIdle
  /\ FinIdle /\ CallIdle /\ BatchIdle

\* raw_text = _extract_raw_text(pdf_path); _detect_bank(raw_text)
LegacyDetect ==
  /\ lpc = "start"
  /\ lcalls' = Append(lcalls, "text")
  /\ lpc' = IF ldoc.layout # "none" THEN "specific" ELSE "stream"
  /\ UNCHANGED <<ldoc, lout, detectVars, pipeVars, parseVars, finVars, callVars, batchVars>>

\* _parse_with_config inside try/except; a non-empty frame is returned
LegacySpecific ==
  /\ lpc = "specific"
  /\ IF ldoc.layout = "unknown"
     THEN /\ lcalls' = lcalls
          /\ lout' = lout
          /\ lpc' = "stream"
     ELSE /\ lcalls' = Append(lcalls, "tables")
          /\ IF ldoc.stream # Raising /\ ldoc.cfgRows
             THEN /\ lout' = Frame(LegacyRows("config"))
                  /\ lpc' = "done"
             ELSE /\ lout' = lout
                  /\ lpc' = "stream"
  /\ UNCHANGED <<ldoc, detectVars, pipeVars, parseVars, finVars, callVars, batchVars>>

\* _parse_generic, flavor "stream"
LegacyStream ==
  /\ lpc = "stream"
  /\ IF HasContent(ldoc.stream)
     THEN /\ lcalls' = lcalls \o <<"tables", "tables">>
          /\ IF ldoc.tabRows
             THEN /\ lout' = Frame(LegacyRows("tables"))
                  /\ lpc' = "done"
             ELSE /\ lout' = lout
                  /\ lpc' = "lattice"
     ELSE /\ lcalls' = Append(lcalls, "tables")
          /\ lout' = lout
          /\ lpc' = "lattice"
  /\ UNCHANGED <<ldoc, detectVars, pipeVars, parseVars, finVars, callVars, batchVars>>

\* _parse_generic, flavor "lattice"; the rows are parsed from a new
\* stream-flavour read (_parse_generic_running_balance)
LegacyLattice ==
  /\ lpc = "lattice"
  /\ IF HasContent(ldoc.lattice)
     THEN /\ lcalls' = lcalls \o <<"tables", "tables">>
          /\ IF ldoc.stream # Raising /\ ldoc.tabRows
             THEN /\ lout' = Frame(LegacyRows("tables"))
                  /\ lpc' = "done"
             ELSE /\ lout' = lout
                  /\ lpc' = "text"
     ELSE /\ lcalls' = Append(lcalls, "tables")
          /\ lout' = lout
          /\ lpc' = "text"
  /\ UNCHANGED <<ldoc, detectVars, pipeVars, parseVars, finVars, callVars, batchVars>>

\* _parse_generic: PDFPlumber
LegacyText ==
  /\ lpc = "text"
  /\ lcalls' = Append(lcalls, "text")
  /\ IF ldoc.text = 1 /\ ldoc.textRows
     THEN /\ lout' = Frame(LegacyRows("text"))
          /\ lpc' = "done"
     ELSE /\ lout' = lout
          /\ lpc' = "ocr"
  /\ UNCHANGED <<ldoc, detectVars, pipeVars, parseVars, finVars, callVars, batchVars>>

\* _parse_generic: OCR, then the final return
LegacyOcr ==
  /\ lpc = "ocr"
  /\ lcalls' = Append(lcalls, "ocr")
  /\ lout' = IF ldoc.ocr = 1 /\ ldoc.ocrRows
             THEN Frame(LegacyRows("ocr"))
             ELSE LegacyAllFailed
  /\ lpc' = "done"
  /\ UNCHANGED <<ldoc, detectVars, pipeVars, parseVars, finVars, callVars, batchVars>>

NextLegacy ==
  \/ LegacyDetect
  \/ LegacySpecific
  \/ LegacyStream
  \/ LegacyLattice
  \/ LegacyText
  \/ LegacyOcr

SpecLegacy == InitLegacy /\ [][NextLegacy]_vars

\* extract_from_pdf is sequential code over synchronous calls: a step that
\* can be taken is taken
SpecLegacyFair == SpecLegacy /\ WF_vars(NextLegacy)

Called_Legacy_All ==
  \A s \in {"tables", "text", "ocr"} : \E i \in DOMAIN lcalls : lcalls[i] = s

AllStrategiesEmpty ==
  /\ lpc # Idle
  /\ ldoc.stream = 0 /\ ldoc.lattice = 0
  /\ ldoc.text = 0
  /\ ldoc.ocr = 0

\* C4: if table extraction, text extraction and OCR all return empty
\* content, extract_from_pdf terminates and returns an empty transaction
\* sequence; it does not raise.
C4_AllEmptyReturnsEmpty ==
  AllStrategiesEmpty ~> (lpc = "done" /\ lout = EmptyFrame)

\* every strategy was tried on a document that gives nothing, and the run
\* ended with the empty frame
C4_Witness ==
  /\ AllStrategiesEmpty
  /\ lpc = "done"
  /\ Called_Legacy_All
  /\ lout = EmptyFrame

\* ------------------------------------------------------------------------
\* Finalization of a parser's rows: UniversalBankExtractor._finalize_output
\* with _validate_balance and _flag_problem_rows, and BaseParser.finalize
\* ------------------------------------------------------------------------
MaxRecs == 2

MaxDescLen == 10

\* the date cell of a source row
SrcDates ==
  { [kind |-> "dmy", m |-> 3, y |-> 2024],
    [kind |-> "garbage", m |-> 0, y |-> 0],
    [kind |-> "empty", m |-> 0, y |-> 0] }

\* UniversalBankExtractor._normalize_date: strftime("%Y-%m-%d") of the date,
\* the raw string when no format fits, "" for an empty cell
UBE_normalize_date(src) ==
  CASE src.kind = "dmy" -> [fmt |-> "iso", m |-> src.m, y |-> src.y]
    [] src.kind = "garbage" -> [fmt |-> "raw", m |-> 0, y |-> 0]
    [] OTHER -> [fmt |-> "empty", m |-> 0, y |-> 0]

\* BaseParser.normalize_date: strftime('%d/%m/%Y') of the date, the cleaned
\* string when no format fits, "" for an empty cell
normalize_date(src) ==
  CASE src.kind = "dmy" -> [fmt |-> "dmy", m |-> src.m, y |-> src.y]
    [] src.kind = "garbage" -> [fmt |-> "raw", m |-> 0, y |-> 0]
    [] OTHER -> [fmt |-> "empty", m |-> 0, y |-> 0]

\* pd.to_datetime(fecha, format='%d/%m/%Y', errors='coerce'), then
\* .dt.month / .dt.year with fillna(0)
ToDatetimeDMY(fecha) ==
  IF fecha.fmt = "dmy" THEN [m |-> fecha.m, y |-> fecha.y]
  ELSE [m |-> 0, y |-> 0]

\* a description: its length and the number of its characters that are digits
AllDescs == {d \in [len : 0..MaxDescLen, digits : 0..MaxDescLen] : d.digits <= d.len}

NoDesc == [len |-> 0, digits |-> 0]

FewDescs ==
  { NoDesc, [len |-> MaxDescLen, digits |-> 0],
    [len |-> MaxDescLen, digits |-> MaxDescLen] }

\* debit, credit and balance of a row, in cents
AmountRows ==
  { [debito |-> 0, credito |-> 0, saldo |-> 0],
    [debito |-> 0, credito |-> 0, saldo |-> 100000],
    [debito |-> 0, credito |-> 20000, saldo |-> 120000],
    [debito |-> 0, credito |-> 20000, saldo |-> 120001],
    [debito |-> 0, credito |-> 20000, saldo |-> 125000] }

Draft(fecha, detalle, a) ==
  [fecha |-> fecha, detalle |-> detalle,
   debito |-> a.debito, credito |-> a.credito, saldo |-> a.saldo]

\* the rows a parser hands to its finalizer
DraftsOf(mode, descs) ==
  { Draft(IF mode = "legacy" THEN UBE_normalize_date(sd) ELSE normalize_date(sd),
          d, a) : sd \in SrcDates, d \in descs, a \in AmountRows }

Finalized(r) ==
  [fecha |-> r.fecha, detalle |-> r.detalle, debito |-> r.debito,
   credito |-> r.credito, saldo |-> r.saldo,
   mes |-> ToDatetimeDMY(r.fecha).m, anio |-> ToDatetimeDMY(r.fecha).y,
   observaciones |-> <<>>]

Note(msg, esperado, actual) == [msg |-> msg, esperado |-> esperado, actual |-> actual]

\* a later note replaces what the record already carries
AddNote_Overwrites(obs, note) == <<note>>

\* `if observaciones: observaciones += "; msg" else observaciones = msg`
AddNote(obs, note) == Append(obs, note)

\* the validator also sets the balance to the expected one
Flagged_Corrects(r, note) ==
  [r EXCEPT !.observaciones = AddNote(@, note), !.saldo = note.esperado]

\* df.loc[i, 'observaciones'] is the only cell the validator assigns
Flagged(r, note) == [r EXCEPT !.observaciones = AddNote(@, note)]

Abs(x) == IF x < 0 THEN 0 - x ELSE x

\* the tolerance 0.01, in cents
TOLERANCE == 1

\* expected_saldo = prev_saldo + current_credito - current_debito
ExpectedSaldo(rs, i) == rs[i - 1].saldo + rs[i].credito - rs[i].debito

\* abs(current_saldo - expected_saldo) > 0.01 in binary floating point: a
\* difference of exactly one cent compares either way, depending on the
\* magnitudes (1.01 - 1.00 > 0.01, while 1200.01 - 1200.00 < 0.01)
FloatExceeds(diff, up) ==
  IF diff = TOLERANCE THEN up ELSE diff > TOLERANCE

\* `len(detalle) > 5`
MIN_DESC_LEN == 5

DescLongEnough(d) == d.len > MIN_DESC_LEN

\* 70% of digits already counts as corrupted
DigitRatioHigh_AtLeast(d) == 10 * d.digits >= 7 * d.len

\* digit_ratio > 0.7
DigitRatioHigh(d) == 10 * d.digits > 7 * d.len

AllZero(r) == r.debito = 0 /\ r.credito = 0 /\ r.saldo = 0

\* BaseParser._clean_dataframe: rows without date, without description or
\* with all amounts zero are removed
CleanKeeps(r) ==
  /\ r.fecha.fmt # "empty"
  /\ r.detalle.len > 0
  /\ ~AllZero(r)

FinModes == {"legacy", "base"}

InitFinal ==
  /\ fmode \in FinModes
  /\ drafts \in SeqsUpTo(DraftsOf(fmode, FewDescs), MaxRecs)
  /\ fpc = "draft"
  /\ recs = <<>>
  /\ DetectIdle /\ PipeIdle /\ LegacyIdle /\ ParseIdle /\ CallIdle /\ BatchIdle

\* one row, with a description of every length and digit count
InitDesc ==
  /\ fmode \in FinModes
  /\ drafts \in [1..1 -> DraftsOf(fmode, AllDescs)]
  /\ fpc = "draft"
  /\ recs = <<>>
  /\ DetectIdle /\ PipeIdle /\ LegacyIdle /\ ParseIdle /\ CallIdle /\ BatchIdle

\* _finalize_output up to `df['observaciones'] = ''`; an empty frame is
\* returned as it is
LegacyFinalize ==
  /\ fmode = "legacy" /\ fpc = "draft"
  /\ recs' = [i \in DOMAIN drafts |-> Finalized(drafts[i])]
  /\ fpc' = IF drafts = <<>> THEN "done" ELSE "validate"
  /\ UNCHANGED <<fmode, drafts, detectVars, pipeVars, legacyVars, parseVars, callVars, batchVars>>

\* _validate_balance: the whole loop over range(1, len(df))
ValidateBalance ==
  /\ fpc = "validate"
  /\ \E up \in [DOMAIN recs -> BOOLEAN] :
       recs' = [i \in DOMAIN recs |->
                  IF i > 1 /\ FloatExceeds(Abs(recs[i].saldo - ExpectedSaldo(recs, i)), up[i])
                  THEN Flagged(recs[i],
                               Note("Inconsistencia", ExpectedSaldo(recs, i), recs[i].saldo))
                  ELSE recs[i]]
  /\ fpc' = "flag"
  /\ UNCHANGED <<fmode, drafts, detectVars, pipeVars, legacyVars, parseVars, callVars, batchVars>>

ZeroNote == Note("Todos los montos en cero", 0, 0)

CorruptNote == Note("Detalle parece corrupto", 0, 0)

FlagZero(r) == IF AllZero(r) THEN Flagged(r, ZeroNote) ELSE r

FlagCorrupt(r) ==
  IF DescLongEnough(r.detalle) /\ DigitRatioHigh(r.detalle)
  THEN Flagged(r, CorruptNote)
  ELSE r

\* _flag_problem_rows: the whole loop, then the column reorder and return
FlagProblemRows ==
  /\ fpc = "flag"
  /\ recs' = [i \in DOMAIN recs |-> FlagCorrupt(FlagZero(recs[i]))]
  /\ fpc' = "done"
  /\ UNCHANGED <<fmode, drafts, detectVars, pipeVars, legacyVars, parseVars, callVars, batchVars>>

\* BaseParser.finalize: month and year columns, then _clean_dataframe
BaseFinalize ==
  /\ fmode = "base" /\ fpc = "draft"
  /\ recs' = SelectSeq([i \in DOMAIN drafts |-> Finalized(drafts[i])], CleanKeeps)
  /\ fpc' = "done"
  /\ UNCHANGED <<fmode, drafts, detectVars, pipeVars, legacyVars, parseVars, callVars, batchVars>>

NextFinal ==
  \/ LegacyFinalize
  \/ ValidateBalance
  \/ FlagProblemRows
  \/ BaseFinalize

SpecFinal == InitFinal /\ [][NextFinal]_vars

SpecDesc == InitDesc /\ [][NextFinal]_vars

\* ------------------------------------------------------------------------
\* Properties of finalization and validation
\* ------------------------------------------------------------------------
FinDone == fpc = "done"

Validated == fmode = "legacy" /\ fpc \in {"flag", "done"}

Core(r) ==
  [fecha |-> r.fecha, detalle |-> r.detalle, debito |-> r.debito,
   credito |-> r.credito, saldo |-> r.saldo]

HasNote(r, msg) ==
  \E k \in DOMAIN r.observaciones : r.observaciones[k].msg = msg

NotesOf(r, msg) == SelectSeq(r.observaciones, LAMBDA n : n.msg = msg)

\* C11: a draft record with no date and no non-zero amount never appears in
\* the finalized sequence.
C11_InvalidRecordFiltered ==
  FinDone =>
    \A i \in DOMAIN recs : ~(recs[i].fecha.fmt = "empty" /\ AllZero(recs[i]))

\* a boundary record: no date, a description, a non-zero balance
Boundary(d) == d.fecha.fmt = "empty" /\ d.detalle.len > 0 /\ d.saldo # 0

\* C12: finalization discards a record only when it lacks both a date and an
\* amount: a boundary record with an empty date and a non-zero balance that
\* the parser emitted is present in the finalized sequence.
C12_BoundaryRecordKept ==
  FinDone =>
    \A i \in DOMAIN drafts :
      Boundary(drafts[i]) => \E j \in DOMAIN recs : Core(recs[j]) = drafts[i]

\* C13: record i > 0 carries exactly one inconsistency note, stating the
\* expected and the actual balance, if and only if the balance differs from
\* previous balance + credit - debit by more than 0.01; record 0 carries none.
C13_InconsistencyIffBeyondTolerance ==
  Validated =>
    \A i \in DOMAIN recs :
      NotesOf(recs[i], "Inconsistencia") =
        IF i > 1 /\ Abs(recs[i].saldo - (recs[i - 1].saldo + recs[i].credito
                                          - recs[i].debito)) > 1
        THEN << [msg |-> "Inconsistencia",
                 esperado |-> recs[i - 1].saldo + recs[i].credito - recs[i].debito,
                 actual |-> recs[i].saldo] >>
        ELSE << >>

ValidatorStepKeepsRecords ==
  fpc \in {"validate", "flag"} =>
    /\ Len(recs') = Len(recs)
    /\ \A i \in DOMAIN recs :
         /\ Core(recs'[i]) = Core(recs[i])
         /\ recs'[i].mes = recs[i].mes /\ recs'[i].anio = recs[i].anio

\* C14: a step of the validator keeps the number and order of the records
\* and every field of every record but the observations.
C14_ValidationOnlyAnnotates == [][ValidatorStepKeepsRecords]_vars

\* two records, the second one annotated with an inconsistency
C14_Witness ==
  /\ fmode = "legacy" /\ FinDone
  /\ Len(recs) = 2
  /\ HasNote(recs[2], "Inconsistencia")
  /\ Core(recs[2]) = drafts[2]

NoteRank(msg) ==
  CASE msg = "Inconsistencia" -> 1
    [] msg = "Todos los montos en cero" -> 2
    [] OTHER -> 3

ValidatorStepExtendsNotes ==
  fpc \in {"validate", "flag"} =>
    \A i \in DOMAIN recs :
      /\ i \in DOMAIN recs'
      /\ Len(recs[i].observaciones) <= Len(recs'[i].observaciones)
      /\ SubSeq(recs'[i].observaciones, 1, Len(recs[i].observaciones))
           = recs[i].observaciones

\* C15: observations are only appended: a validator step leaves what a record
\* carries as a prefix of what it carries afterwards, and at the end every
\* triggered note is there, in the order balance inconsistency, all amounts
\* zero, corrupted description.
C15_ObservationsAppendOnly ==
  /\ [][ValidatorStepExtendsNotes]_vars
  /\ []((fmode = "legacy" /\ FinDone) =>
          \A i \in DOMAIN recs :
            LET o == recs[i].observaciones
            IN  /\ \A k \in 1..(Len(o) - 1) : NoteRank(o[k].msg) < NoteRank(o[k + 1].msg)
                /\ (i > 1 /\ Abs(recs[i].saldo - (recs[i - 1].saldo + recs[i].credito
                                                   - recs[i].debito)) > 1)
                     => HasNote(recs[i], "Inconsistencia")
                /\ (recs[i].debito = 0 /\ recs[i].credito = 0 /\ recs[i].saldo = 0)
                     => HasNote(recs[i], "Todos los montos en cero")
                /\ (recs[i].detalle.len > 5
                      /\ 10 * recs[i].detalle.digits > 7 * recs[i].detalle.len)
                     => HasNote(recs[i], "Detalle parece corrupto"))

\* a record that triggered all three checks carries the three notes
C15_Witness ==
  /\ fmode = "legacy" /\ FinDone
  /\ \E i \in DOMAIN recs :
       /\ Len(recs[i].observaciones) = 3
       /\ recs[i].observaciones[1].msg = "Inconsistencia"
       /\ recs[i].observaciones[2].msg = "Todos los montos en cero"
       /\ recs[i].observaciones[3].msg = "Detalle parece corrupto"

\* C16 as stated: a record carries the corrupted-description note if and
\* only if more than 70% of the characters of its description are digits,
\* for every non-zero length.
C16_CorruptIffMostlyDigits ==
  (fmode = "legacy" /\ FinDone) =>
    \A i \in DOMAIN recs :
      HasNote(recs[i], "Detalle parece corrupto") <=>
        (recs[i].detalle.len > 0
           /\ 10 * recs[i].detalle.digits > 7 * recs[i].detalle.len)

\* C16 amended: a record carries the corrupted-description note if and only
\* if its description is longer than 5 characters and more than 70% of them
\* are digits; descriptions of 1 to 5 characters are never flagged.
C16_CorruptIffLongAndMostlyDigits ==
  (fmode = "legacy" /\ FinDone) =>
    \A i \in DOMAIN recs :
      HasNote(recs[i], "Detalle parece corrupto") <=>
        (recs[i].detalle.len > 5
           /\ 10 * recs[i].detalle.digits > 7 * recs[i].detalle.len)

\* a description of 6 characters, 5 of them digits, was flagged
C16_Witness ==
  /\ fmode = "legacy" /\ FinDone
  /\ Len(recs) = 1
  /\ recs[1].detalle = [len |-> 6, digits |-> 5]
  /\ HasNote(recs[1], "Detalle parece corrupto")

Normalized(fecha) == fecha.fmt \in {"iso", "dmy"}

\* C18: a finalized record whose date was normalized has the month and year
\* of that date; month and year are 0 only when the date could not be parsed.
C18_MonthYearFromDate ==
  FinDone =>
    \A i \in DOMAIN recs :
      /\ Normalized(recs[i].fecha) =>
           (recs[i].mes = recs[i].fecha.m /\ recs[i].anio = recs[i].fecha.y)
      /\ (recs[i].mes = 0 \/ recs[i].anio = 0) => ~Normalized(recs[i].fecha)

\* ------------------------------------------------------------------------
\* One table row through a layout parser
\* ------------------------------------------------------------------------
\* an amount cell as _parse_amount reads it: None, or a signed value in cents
NoneCell == [ok |-> FALSE, v |-> 0]

Cells == {NoneCell} \cup {[ok |-> TRUE, v |-> x] : x \in {0 - 15000, 0, 15000}}

RowLayouts == Layouts \cup {"generic_columns", "generic_importe"}

\* BaseParser.parse_amount answers 0.0 where _parse_amount answers None
AmountOrZero(c) == IF c.ok THEN c.v ELSE 0

RowOut(debitos, creditos, saldo) ==
  [done |-> TRUE, debitos |-> debitos, creditos |-> creditos, saldo |-> saldo]

\* _parse_separate_columns: abs(debito) if debito else 0; the balance as
\* parsed (None becomes 0.0 in _finalize_output)
ParseSeparateColumns(r) ==
  RowOut(Abs(AmountOrZero(r.debito)), Abs(AmountOrZero(r.credito)),
         AmountOrZero(r.saldo))

\* _parse_single_signed: a negative value is a debit, any other a credit
ParseSingleSigned(r) ==
  RowOut(IF r.valor.ok /\ r.valor.v < 0 THEN Abs(r.valor.v) ELSE 0,
         IF r.valor.ok /\ r.valor.v >= 0 THEN r.valor.v ELSE 0,
         AmountOrZero(r.saldo))

\* _parse_signed_separate:
\*   debito = abs(parsed) if parsed < 0 else parsed
\*   credito = abs(parsed) if parsed > 0 else parsed
ParseSignedSeparate(r) ==
  RowOut(IF r.debito.ok
         THEN (IF r.debito.v < 0 THEN Abs(r.debito.v) ELSE r.debito.v) ELSE 0,
         IF r.credito.ok
         THEN (IF r.credito.v > 0 THEN Abs(r.credito.v) ELSE r.credito.v) ELSE 0,
         AmountOrZero(r.saldo))

\* GenericParser._parse_table_row with debito, credito and saldo columns:
\* transaction[field] = abs(amount) when amount != 0
ParseTableRowColumns(r) ==
  RowOut(Abs(AmountOrZero(r.debito)), Abs(AmountOrZero(r.credito)),
         Abs(AmountOrZero(r.saldo)))

\* GenericParser._parse_table_row with a single importe column and a saldo
ParseTableRowImporte(r) ==
  RowOut(IF AmountOrZero(r.valor) < 0 THEN Abs(AmountOrZero(r.valor)) ELSE 0,
         IF AmountOrZero(r.valor) > 0 THEN AmountOrZero(r.valor) ELSE 0,
         Abs(AmountOrZero(r.saldo)))

ParseRow(r) ==
  CASE r.layout = "separate_all" -> ParseSeparateColumns(r)
    [] r.layout = "single_signed" -> ParseSingleSigned(r)
    [] r.layout = "signed_separate" -> ParseSignedSeparate(r)
    [] r.layout = "generic_columns" -> ParseTableRowColumns(r)
    [] OTHER -> ParseTableRowImporte(r)

CallPending == [done |-> FALSE]

InitRow ==
  /\ callIn \in [layout : RowLayouts, debito : Cells, credito : Cells,
                 saldo : Cells, valor : Cells]
  /\ callOut = CallPending
  /\ DetectIdle /\ PipeIdle /\ LegacyIdle /\ ParseIdle /\ FinIdle /\ BatchIdle

RowCall ==
  /\ callOut = CallPending
  /\ callOut' = ParseRow(callIn)
  /\ UNCHANGED <<callIn, detectVars, pipeVars, legacyVars, parseVars, finVars, batchVars>>

NextRow == RowCall

SpecRow == InitRow /\ [][NextRow]_vars

\* C17: in every record a layout parser emits, debit >= 0 and credit >= 0
\* whatever the signs of the source amounts, and the balance keeps the sign
\* and value of its source.
C17_DebitCreditNonNegative ==
  callOut.done =>
    /\ callOut.debitos >= 0
    /\ callOut.creditos >= 0
    /\ callIn.saldo.ok => callOut.saldo = callIn.saldo.v

\* ------------------------------------------------------------------------
\* Monetary tokens: format_amount and the amount normalizers
\* ------------------------------------------------------------------------
\* A token is a sequence of characters.  A value is a sign, the digits of
\* its integer part and the digits of its fraction.
MaxIntDigits == 10

Digits == {"0", "1", "2", "3", "4", "5", "6", "7", "8", "9"}

IntParts ==
  {<<"0">>} \cup
  UNION { { <<"1">> \o r : r \in [1..(k - 1) -> {"0", "5"}] } : k \in 1..MaxIntDigits }

FracParts == { <<"0", "0">>, <<"5", "0">>, <<"5", "6">> }

AllZeros(ds) == \A i \in DOMAIN ds : ds[i] = "0"

Values ==
  { v \in [neg : BOOLEAN, int : IntParts, frac : FracParts] :
      v.neg => ~(AllZeros(v.int) /\ AllZeros(v.frac)) }

RECURSIVE StripLeadingZeros(_)
StripLeadingZeros(ds) ==
  IF ds = <<>> THEN <<"0">>
  ELSE IF Len(ds) > 1 /\ ds[1] = "0" THEN StripLeadingZeros(Tail(ds))
  ELSE ds

RECURSIVE StripTrailingZeros(_)
StripTrailingZeros(fs) ==
  IF fs # <<>> /\ fs[Len(fs)] = "0"
  THEN StripTrailingZeros(SubSeq(fs, 1, Len(fs) - 1))
  ELSE fs

\* the number a sign, integer digits and fraction digits denote (-0.0 == 0.0)
Number(neg, int, frac) ==
  [neg |-> neg /\ ~(AllZeros(int) /\ AllZeros(frac)),
   int |-> StripLeadingZeros(int),
   frac |-> StripTrailingZeros(frac)]

NumberOf(v) == Number(v.neg, v.int, v.frac)

Zero == Number(FALSE, <<"0">>, <<>>)

Replace(s, a, b) == [i \in DOMAIN s |-> IF s[i] = a THEN b ELSE s[i]]

Remove(s, a) == SelectSeq(s, LAMBDA c : c # a)

Has(s, a) == \E i \in DOMAIN s : s[i] = a

\* str.rfind, 1-based, 0 when absent
RFind(s, a) ==
  IF Has(s, a) THEN CHOOSE i \in DOMAIN s : s[i] = a /\ \A j \in DOMAIN s : s[j] = a => j <= i
  ELSE 0

EndsWith(s, a) == s # <<>> /\ s[Len(s)] = a

StartsWith(s, a) == s # <<>> /\ s[1] = a

\* the ',' grouping of f"{x:,.2f}"
RECURSIVE GroupThousands(_)
GroupThousands(ds) ==
  IF Len(ds) <= 3 THEN ds
  ELSE GroupThousands(SubSeq(ds, 1, Len(ds) - 3)) \o <<",">>
         \o SubSeq(ds, Len(ds) - 2, Len(ds))

\* f"{abs(amount):,.2f}"
FormatUS(v) == GroupThousands(v.int) \o <<".">> \o v.frac

\* .replace(',', 'X').replace('.', ',').replace('X', '.')
SwapSeparators(s) == Replace(Replace(Replace(s, ",", "X"), ".", ","), "X", ".")

\* BaseParser.format_amount
format_amount(v) ==
  IF v.neg THEN <<"-">> \o SwapSeparators(FormatUS(v))
  ELSE SwapSeparators(FormatUS(v))

\* float(clean_str): an optional sign, digits with at most one '.'
FloatOk(s) ==
  LET body == IF StartsWith(s, "-") THEN Tail(s) ELSE s
  IN  /\ \A i \in DOMAIN body : body[i] \in Digits \cup {"."}
      /\ Count(body, ".") <= 1
      /\ \E i \in DOMAIN body : body[i] \in Digits

FloatOf(s) ==
  LET sign == StartsWith(s, "-")
      body == IF sign THEN Tail(s) ELSE s
      dot == RFind(body, ".")
  IN  IF dot = 0 THEN Number(sign, body, <<>>)
      ELSE Number(sign, SubSeq(body, 1, dot - 1), SubSeq(body, dot + 1, Len(body)))

Negated(n) == Number(~n.neg, n.int, n.frac)

\* re.sub(r'[^\d\-\.,]', '', clean_str)
KeepNumeric(s) == SelectSeq(s, LAMBDA c : c \in Digits \cup {"-", ".", ","})

\* "Determinar separador decimal" of BaseParser.parse_amount, with every
\* lone comma read as a thousands separator
DecimalSeparator_CommaThousands(s) ==
  IF Has(s, ",") /\ Has(s, ".")
  THEN IF RFind(s, ",") > RFind(s, ".")
       THEN Replace(Remove(s, "."), ",", ".")
       ELSE Remove(s, ",")
  ELSE Remove(s, ",")

\* "Determinar separador decimal" of BaseParser.parse_amount
DecimalSeparator(s) ==
  IF Has(s, ",") /\ Has(s, ".")
  THEN IF RFind(s, ",") > RFind(s, ".")
       THEN Replace(Remove(s, "."), ",", ".")
       ELSE Remove(s, ",")
  ELSE IF Has(s, ",")
  THEN IF Count(s, ",") = 1 /\ Len(s) - RFind(s, ",") = 2
       THEN Replace(s, ",", ".")
       ELSE Remove(s, ",")
  ELSE s

\* the part of parse_amount after the cleaned string was found non-trivial
SignedFloat(clean, negative_suffix) ==
  LET c2 == IF negative_suffix /\ EndsWith(clean, "-")
            THEN SubSeq(clean, 1, Len(clean) - 1) ELSE clean
      negative_prefix == StartsWith(c2, "-")
      c3 == IF negative_prefix THEN Tail(c2) ELSE c2
      c4 == DecimalSeparator(c3)
  IN  IF ~FloatOk(c4) THEN Zero
      ELSE IF negative_suffix \/ negative_prefix THEN Negated(FloatOf(c4))
      ELSE FloatOf(c4)

AmountResult(ok, val) == [done |-> TRUE, ok |-> ok, val |-> val]

\* BaseParser.parse_amount: always a float, 0.0 when the token is unusable
parse_amount(t) ==
  IF t = <<>> \/ t \in {<<"-">>, <<".">>, <<",">>, <<"n", "a", "n">>, <<"N", "o", "n", "e">>}
  THEN AmountResult(TRUE, Zero)
  ELSE LET clean == KeepNumeric(t)
       IN  IF clean = <<>> \/ clean \in {<<"-">>, <<".">>, <<",">>}
           THEN AmountResult(TRUE, Zero)
           ELSE AmountResult(TRUE, SignedFloat(clean, EndsWith(t, "-")))

\* UniversalBankExtractor (v2) parse_amount
V2_parse_amount(t) ==
  IF t = <<>> THEN AmountResult(TRUE, Zero)
  ELSE LET clean == KeepNumeric(t)
       IN  IF clean = <<>> \/ clean \in {<<"-">>, <<".">>, <<",">>}
           THEN AmountResult(TRUE, Zero)
           ELSE AmountResult(TRUE, SignedFloat(clean, EndsWith(t, "-")))

MAX_AMOUNT_DIGITS == 11

DigitCount(s) == Cardinality({i \in DOMAIN s : s[i] \in Digits})

AllDigits(s) == \A i \in DOMAIN s : s[i] \in Digits

\* \d{1,3}(?:[.,]\d{3})*
RECURSIVE Grouped(_)
Grouped(h) ==
  IF Len(h) <= 3 THEN Len(h) >= 1 /\ AllDigits(h)
  ELSE /\ AllDigits(SubSeq(h, Len(h) - 2, Len(h)))
       /\ h[Len(h) - 3] \in {".", ","}
       /\ Grouped(SubSeq(h, 1, Len(h) - 4))

\* ^\d{1,3}(?:[.,]\d{3})*[.,]\d{2}$|^\d+[.,]\d{2}$
MatchesAmountFormat(s) ==
  /\ Len(s) >= 4
  /\ AllDigits(SubSeq(s, Len(s) - 1, Len(s)))
  /\ s[Len(s) - 2] \in {".", ","}
  /\ LET head == SubSeq(s, 1, Len(s) - 3)
     IN  Grouped(head) \/ AllDigits(head)

\* "Determine decimal separator" of UniversalBankExtractor._parse_amount
UBE_DecimalSeparator(s) ==
  IF Has(s, ",") /\ Has(s, ".")
  THEN IF RFind(s, ",") > RFind(s, ".")
       THEN Replace(Remove(s, "."), ",", ".")
       ELSE Remove(s, ",")
  ELSE IF Has(s, ",")
  THEN IF Len(s) - RFind(s, ",") = 2
       THEN Replace(s, ",", ".")
       ELSE Remove(s, ",")
  ELSE s

\* UniversalBankExtractor._parse_amount: None (ok = FALSE) when rejected
UBE_parse_amount(t) ==
  IF t = <<>> \/ DigitCount(t) > MAX_AMOUNT_DIGITS THEN AmountResult(FALSE, Zero)
  ELSE LET is_parentheses == StartsWith(t, "(") /\ EndsWith(t, ")")
           c1 == IF is_parentheses THEN SubSeq(t, 2, Len(t) - 1) ELSE t
           is_negative_suffix == EndsWith(c1, "-")
           c2 == IF is_negative_suffix THEN SubSeq(c1, 1, Len(c1) - 1) ELSE c1
           is_negative_prefix == StartsWith(c2, "-")
           c3 == IF is_negative_prefix THEN Tail(c2) ELSE c2
           c4 == SelectSeq(c3, LAMBDA c : c \notin {"$", " "})
           c5 == UBE_DecimalSeparator(c4)
       IN  IF ~MatchesAmountFormat(c4) \/ ~FloatOk(c5) THEN AmountResult(FALSE, Zero)
           ELSE IF is_parentheses \/ is_negative_suffix \/ is_negative_prefix
           THEN AmountResult(TRUE, Negated(FloatOf(c5)))
           ELSE AmountResult(TRUE, FloatOf(c5))

AmountImpls == {"base", "v2", "legacy"}

AmountOps == {"roundtrip", "leading", "trailing", "paren", "words"}

NormalizeAmount(impl, t) ==
  CASE impl = "base" -> parse_amount(t)
    [] impl = "v2" -> V2_parse_amount(t)
    [] impl = "legacy" -> UBE_parse_amount(t)

\* the token a call hands to the normalizer
TokenOf(c) ==
  CASE c.op = "roundtrip" -> format_amount(c.v)
    [] c.op = "leading" -> <<"-">> \o format_amount(c.v)
    [] c.op = "trailing" -> format_amount(c.v) \o <<"-">>
    [] c.op = "paren" -> <<"(">> \o format_amount(c.v) \o <<")">>
    [] c.op = "words" -> <<"N", "/", "A">>

InitAmount ==
  /\ DetectIdle /\ PipeIdle /\ LegacyIdle /\ ParseIdle /\ FinIdle /\ BatchIdle
  /\ callIn \in { c \in [impl : AmountImpls, op : AmountOps, v : Values] :
                    /\ c.op \in {"leading", "trailing", "paren"} =>
                         ~c.v.neg /\ c.v # [neg |-> FALSE, int |-> <<"0">>, frac |-> <<"0", "0">>]
                    /\ c.op = "words" => c.v = [neg |-> FALSE, int |-> <<"0">>, frac |-> <<"0", "0">>] }
  /\ callOut = CallPending

AmountCall ==
  /\ callOut = CallPending
  /\ callOut' = NormalizeAmount(callIn.impl, TokenOf(callIn))
  /\ UNCHANGED <<detectVars, pipeVars, legacyVars, parseVars, finVars, callIn, batchVars>>

NextAmount == AmountCall

SpecAmount == InitAmount /\ [][NextAmount]_vars

\* C19: each negation form of a positive amount (trailing minus, leading
\* minus, enclosing parentheses) normalizes to the negated amount, whichever
\* normalizer reads it.
C19_NegationFormsNormalize ==
  (callOut.done /\ callIn.op \in {"leading", "trailing", "paren"})
    => (callOut.ok /\ callOut.val = Negated(NumberOf(callIn.v)))

RoundTripDone == callOut.done /\ callIn.op = "roundtrip"

\* C20 (as stated): formatting a two-decimal amount and normalizing the
\* result gives back the amount, for every magnitude, either sign and
\* every normalizer.
C20_RoundTripAnyMagnitude ==
  RoundTripDone => (callOut.ok /\ callOut.val = NumberOf(callIn.v))

\* C20 (amended): the round trip gives back the amount for every magnitude
\* under BaseParser.parse_amount and the v2 parse_amount; under the legacy
\* _parse_amount it does so exactly when the amount has at most 11 digits,
\* and a longer amount is rejected.
C20_RoundTripWithinLegacyLimit ==
  RoundTripDone =>
    IF callIn.impl = "legacy" /\ Len(callIn.v.int) + Len(callIn.v.frac) > 11
    THEN ~callOut.ok
    ELSE callOut.ok /\ callOut.val = NumberOf(callIn.v)

C20_Witness ==
  /\ RoundTripDone
  /\ callIn.impl = "base"
  /\ callIn.v.neg
  /\ Len(callIn.v.int) = 10
  /\ callIn.v.frac = <<"5", "6">>
  /\ callOut.val = NumberOf(callIn.v)

\* a token that is not a monetary shape: words, or more than 11 digits
NotMonetary(c) == c.op = "words" \/ DigitCount(TokenOf(c)) > MAX_AMOUNT_DIGITS

\* C21: for every token that is not a monetary shape (more than 11 digits
\* included) the normalizer answers "could not parse", never a number; and it
\* answers 0 only for a token that denotes zero.
C21_UnparseableIsNotZero ==
  callOut.done =>
    /\ NotMonetary(callIn) => ~callOut.ok
    /\ (callOut.ok /\ callOut.val = Zero) =>
         (callIn.op # "words" /\ NumberOf(callIn.v) = Zero)

\* ------------------------------------------------------------------------
\* Day/month-only dates and the year that completes them
\* ------------------------------------------------------------------------
NoYear == 0

\* datetime.now().year of the run
CurrentYear == 2026

FileYears == {NoYear, 2024, 2025}

TextYears == {NoYear, 2023}

DayTokens == {1, 5, 29, 30, 31}

MonthTokens == {2, 3, 4}

\* datetime(year, month, day) accepts the date
ValidDate(y, m, d) ==
  /\ y # NoYear
  /\ d >= 1
  /\ d <= (CASE m = 2 -> IF y % 4 = 0 THEN 29 ELSE 28
             [] m \in {4, 6, 9, 11} -> 30
             [] OTHER -> 31)

\* UniversalBankExtractor._extract_year_from_filename: None when the name
\* holds no 20xx
extract_year_from_filename(fileYear) == fileYear

\* BaseParser._infer_year(text, filename)
infer_year(textYear, fileYear) ==
  IF textYear # NoYear THEN textYear
  ELSE IF fileYear # NoYear THEN fileYear
  ELSE CurrentYear

DateOut(fmt, d, m, y) == [done |-> TRUE, fmt |-> fmt, d |-> d, m |-> m, y |-> y]

\* UniversalBankExtractor._normalize_date on a "dd/mm" token: the attribute
\* inferred_year always exists, so getattr never takes its default; a None
\* year makes datetime() raise, which is swallowed, and the raw token is
\* returned
UBE_normalize_day_month(d, m, year) ==
  IF ValidDate(year, m, d) THEN DateOut("iso", d, m, year)
  ELSE DateOut("raw", d, m, NoYear)

\* comafi._norm_date(raw, year_hint) on a "dd/mm" token
norm_date(d, m, year_hint) ==
  LET y == IF year_hint # NoYear THEN year_hint ELSE CurrentYear
  IN  IF ValidDate(y, m, d) THEN DateOut("dmy", d, m, y)
      ELSE DateOut("raw", d, m, NoYear)

\* one normalization of a day/month token of a document: the legacy
\* extractor takes the year from the filename hint, ComafiParser from
\* _infer_year on the text alone
NormalizeDayMonth(c) ==
  CASE c.impl = "legacy" ->
         UBE_normalize_day_month(c.d, c.m, extract_year_from_filename(c.fileYear))
    [] c.impl = "comafi" ->
         norm_date(c.d, c.m, infer_year(c.textYear, NoYear))

InitDate ==
  /\ DetectIdle /\ PipeIdle /\ LegacyIdle /\ ParseIdle /\ FinIdle /\ BatchIdle
  /\ callIn \in [impl : {"legacy", "comafi"}, d : DayTokens, m : MonthTokens,
                 fileYear : FileYears, textYear : TextYears]
  /\ callOut = CallPending

DateCall ==
  /\ callOut = CallPending
  /\ callOut' = NormalizeDayMonth(callIn)
  /\ UNCHANGED <<detectVars, pipeVars, legacyVars, parseVars, finVars, callIn, batchVars>>

NextDate == DateCall

SpecDate == InitDate /\ [][NextDate]_vars

\* the year the claim expects: the one in the filename hint, else the
\* current year
HintYear(c) == IF c.fileYear # NoYear THEN c.fileYear ELSE CurrentYear

\* C22: a day/month-only token that is a real date of the hinted year is
\* returned as the canonical day/month/year string, with the year of the
\* filename hint when it holds one and the current year otherwise.
C22_DayMonthGetsHintYear ==
  (callOut.done /\ ValidDate(HintYear(callIn), callIn.m, callIn.d)) =>
    /\ callOut.fmt = "dmy"
    /\ callOut.d = callIn.d /\ callOut.m = callIn.m
    /\ callOut.y = HintYear(callIn)

\* ------------------------------------------------------------------------
\* One text line: amount extraction and categorization
\* ------------------------------------------------------------------------
\* A line is its date, the context its description gives, and its amount
\* tokens from left to right; an amount token is a magnitude in cents and
\* the form it is written in ("1.234,56", "1.234,56-", "-1.234,56").
MaxAmounts == 3

AmountForms == {"plain", "suffix", "prefix"}

AmountItems ==
  { it \in [form : AmountForms, val : {0, 2000, 50000, 300000}] :
      it.val = 0 => it.form = "plain" }

LineDate == [kind |-> "dmy", m |-> 5, y |-> 2025]

\* parse_amount of the matched text
SignedVal(it) == IF it.form = "plain" THEN it.val ELSE 0 - it.val

SignedVals(items) == [i \in DOMAIN items |-> SignedVal(items[i])]

\* the two passes of _parse_transaction_line: first every match of the
\* negative-suffix pattern, then the matches of amount_patterns[1:] that
\* overlap no earlier match; a match parsed as 0 is not appended
ExtractAmounts(items) ==
  LET suffixed == SelectSeq(items, LAMBDA it : it.form = "suffix")
      others == SelectSeq(items, LAMBDA it : it.form # "suffix")
  IN  SelectSeq(SignedVals(suffixed \o others), LAMBDA a : a # 0)

\* max(xs, key=abs): the first element of largest magnitude
MaxByAbs(xs) ==
  xs[CHOOSE i \in DOMAIN xs :
       /\ \A j \in DOMAIN xs : Abs(xs[j]) <= Abs(xs[i])
       /\ \A j \in DOMAIN xs : j < i => Abs(xs[j]) < Abs(xs[i])]

LineOut(emitted, debito, credito, saldo, amounts) ==
  [done |-> TRUE, emitted |-> emitted, fecha |-> normalize_date(LineDate),
   debito |-> debito, credito |-> credito, saldo |-> saldo, amounts |-> amounts]

\* "Categorizar movimiento": context first, sign only without context
WithMovement(c, movement, saldo, amounts) ==
  IF c.isDebit THEN LineOut(TRUE, Abs(movement), 0, saldo, amounts)
  ELSE IF c.isCredit THEN LineOut(TRUE, 0, Abs(movement), saldo, amounts)
  ELSE IF movement < 0 THEN LineOut(TRUE, Abs(movement), 0, saldo, amounts)
  ELSE LineOut(TRUE, 0, Abs(movement), saldo, amounts)

\* the branches shared by both categorizers: no amount, balance line, one
\* amount, two amounts
CategorizeUpToTwo(c, amounts) ==
  IF amounts = <<>> THEN LineOut(FALSE, 0, 0, 0, amounts)
  ELSE IF c.saldoLine THEN LineOut(TRUE, 0, 0, amounts[1], amounts)
  ELSE IF Len(amounts) = 1
  THEN IF amounts[1] < 0 \/ c.isDebit
       THEN LineOut(TRUE, Abs(amounts[1]), 0, 0, amounts)
       ELSE LineOut(TRUE, 0, Abs(amounts[1]), 0, amounts)
  ELSE WithMovement(c, amounts[1], amounts[2], amounts)

\* GenericParser._categorize_amounts
categorize_amounts(c, amounts) ==
  IF Len(amounts) < 3 \/ c.saldoLine THEN CategorizeUpToTwo(c, amounts)
  ELSE LET last == amounts[Len(amounts)]
           max_amount == MaxByAbs(amounts)
           balance_candidate ==
             IF 10 * Abs(last) < Abs(max_amount) THEN max_amount ELSE last
           movement_candidates == SelectSeq(amounts, LAMBDA a : a # balance_candidate)
           movement == IF movement_candidates # <<>> THEN MaxByAbs(movement_candidates)
                       ELSE amounts[1]
       IN  WithMovement(c, movement, balance_candidate, amounts)

\* UniversalBankExtractor._categorize_amounts_improved (src/extractors)
categorize_amounts_improved(c, amounts) ==
  IF Len(amounts) < 3 \/ c.saldoLine THEN CategorizeUpToTwo(c, amounts)
  ELSE WithMovement(c, MaxByAbs(SubSeq(amounts, 1, Len(amounts) - 1)),
                    amounts[Len(amounts)], amounts)

\* The context the categorizer sees.  The detalle is the line with the date
\* and the amounts cut out; from the second cut on, the cut is placed too far
\* left by the length of what was already removed, so with two or more
\* amounts it takes characters of the description and a keyword survives or
\* not, depending on where it stands (keptDebit, keptCredit).  The balance
\* phrase is also looked up in the original line.
DetalleContext(c, amounts) ==
  [isDebit |-> c.isDebit /\ (Len(amounts) < 2 \/ c.keptDebit),
   isCredit |-> c.isCredit /\ (Len(amounts) < 2 \/ c.keptCredit),
   saldoLine |-> c.saldoLine]

\* _parse_transaction_line of a line that has a date
parse_transaction_line(c) ==
  LET amounts == ExtractAmounts(c.items)
  IN  IF c.impl = "generic"
      THEN categorize_amounts(DetalleContext(c, amounts), amounts)
      ELSE categorize_amounts_improved(DetalleContext(c, amounts), amounts)

InitLine ==
  /\ DetectIdle /\ PipeIdle /\ LegacyIdle /\ ParseIdle /\ FinIdle /\ BatchIdle
  /\ \E n \in 1..MaxAmounts :
       callIn \in { c \in [impl : {"generic", "improved"}, isDebit : BOOLEAN,
                           isCredit : BOOLEAN, keptDebit : BOOLEAN,
                           keptCredit : BOOLEAN, saldoLine : BOOLEAN,
                           items : [1..n -> AmountItems]] :
                      /\ c.keptDebit => c.isDebit
                      /\ c.keptCredit => c.isCredit }
  /\ callOut = CallPending

LineCall ==
  /\ callOut = CallPending
  /\ callOut' = parse_transaction_line(callIn)
  /\ UNCHANGED <<detectVars, pipeVars, legacyVars, parseVars, finVars, callIn, batchVars>>

NextLine == LineCall

SpecLine == InitLine /\ [][NextLine]_vars

\* C23: a line with a credit keyword, no debit keyword, no balance phrase
\* and exactly two amounts, the first of them positive, gives one record
\* with a canonical date, debit 0, credit = first amount, balance = second
\* amount.
C23_CreditLineTwoAmounts ==
  ( /\ callOut.done
    /\ callIn.isCredit /\ ~callIn.isDebit /\ ~callIn.saldoLine
    /\ Len(callIn.items) = 2
    /\ SignedVal(callIn.items[1]) > 0 ) =>
    /\ callOut.emitted
    /\ callOut.fecha = [fmt |-> "dmy", m |-> 5, y |-> 2025]
    /\ callOut.debito = 0
    /\ callOut.credito = SignedVal(callIn.items[1])
    /\ callOut.saldo = SignedVal(callIn.items[2])

\* C28: the amounts handed to categorization are the line's amounts in
\* their left-to-right order, whatever their form; so with two amounts the
\* leftmost is the movement and the rightmost the balance.
C28_AmountsLeftToRight ==
  callOut.done =>
    callOut.amounts = SelectSeq(SignedVals(callIn.items), LAMBDA a : a # 0)

\* C29: with three or more extracted amounts and no balance phrase the
\* balance is the last amount, sign kept, and the movement is a
\* largest-magnitude amount among the others, put to debit or credit by
\* context first and by its sign only without context.
C29_LastIsBalance ==
  (callOut.done /\ ~callIn.saldoLine /\ Len(callOut.amounts) >= 3) =>
    LET as == callOut.amounts
        others == SubSeq(as, 1, Len(as) - 1)
        top == Abs(MaxByAbs(others))
        asDebit == callOut.debito = top /\ callOut.credito = 0
        asCredit == callOut.credito = top /\ callOut.debito = 0
    IN  /\ callOut.saldo = as[Len(as)]
        /\ IF callIn.isDebit THEN asDebit
           ELSE IF callIn.isCredit THEN asCredit
           ELSE \E i \in DOMAIN others :
                  /\ Abs(others[i]) = top
                  /\ IF others[i] < 0 THEN asDebit ELSE asCredit

\* ------------------------------------------------------------------------
\* Header-row detection
\* ------------------------------------------------------------------------
\* A table row is the set of column names written in its cells.
MaxRows == 2

HeaderWords == {"fecha", "concepto", "saldo", "debito", "credito"}

NoHeader == 0

\* the field category a column name is a synonym of
CategoryOf(w) ==
  CASE w = "fecha" -> "date"
    [] w = "concepto" -> "description"
    [] w = "saldo" -> "balance"
    [] w = "debito" -> "debit"
    [] w = "credito" -> "credit"

\* the entries of BaseParser's header_indicators that are substrings of a
\* column name
BaseIndicatorsIn(w) == IF w = "fecha" THEN {"fecha", "fec"} ELSE {w}

\* BaseParser._find_header_row: one point per indicator found in the row
BaseScore(row) == Cardinality(UNION {BaseIndicatorsIn(w) : w \in row})

\* UniversalBankExtractor._find_header_row (src/extractors): one point per
\* list among date_indicators, detail_indicators, balance_indicators
ImprovedScore(row) ==
  Cardinality({CategoryOf(w) : w \in row} \cap {"date", "description", "balance"})

\* TableExtractor._find_header_row: hits of the row in its indicators list
TableHits(row) == Cardinality(row)

\* the first row whose score reaches 2, None when there is none
FirstScoring(table, Score(_)) ==
  IF \E i \in DOMAIN table : Score(table[i]) >= 2
  THEN CHOOSE i \in DOMAIN table :
         Score(table[i]) >= 2 /\ \A j \in DOMAIN table : j < i => Score(table[j]) < 2
  ELSE NoHeader

\* TableExtractor._find_header_row tests hits after its loop: only the last
\* row counts, and with no row at all hits is unbound
find_header_row(impl, table) ==
  CASE impl = "base" -> FirstScoring(table, BaseScore)
    [] impl = "improved" -> FirstScoring(table, ImprovedScore)
    [] impl = "table" ->
         IF table = <<>> THEN Raising
         ELSE IF TableHits(table[Len(table)]) >= 2 THEN Len(table)
         ELSE NoHeader

InitHeader ==
  /\ DetectIdle /\ PipeIdle /\ LegacyIdle /\ ParseIdle /\ FinIdle /\ BatchIdle
  /\ callIn \in [impl : {"base", "improved", "table"},
                 table : SeqsUpTo(SUBSET HeaderWords, MaxRows)]
  /\ callOut = CallPending

HeaderCall ==
  /\ callOut = CallPending
  /\ callOut' = [done |-> TRUE, header |-> find_header_row(callIn.impl, callIn.table)]
  /\ UNCHANGED <<detectVars, pipeVars, legacyVars, parseVars, finVars, callIn, batchVars>>

NextHeader == HeaderCall

SpecHeader == InitHeader /\ [][NextHeader]_vars

Categories(row) == {CategoryOf(w) : w \in row}

\* C30: the header is the first row, top-down, that names at least two
\* distinct field categories; a row naming one category is never the header,
\* and without a qualifying row no header is reported.
C30_HeaderHasTwoCategories ==
  callOut.done =>
    LET t == callIn.table
        qualifies(i) == Cardinality(Categories(t[i])) >= 2
    IN  IF \E i \in DOMAIN t : qualifies(i)
        THEN /\ callOut.header \in DOMAIN t
             /\ qualifies(callOut.header)
             /\ \A j \in DOMAIN t : j < callOut.header => ~qualifies(j)
        ELSE callOut.header = NoHeader

\* ------------------------------------------------------------------------
\* Line-based parsing: record starts, continuation lines, balance rows
\* ------------------------------------------------------------------------
\* A text is a sequence of lines.  A line is a record start (date, concept,
\* amounts), a date-less continuation line, or a date-less line stating the
\* opening ("anterior") or closing ("final") balance.  The text of line i
\* is written i; a description is the sequence of the texts it is made of.
MaxLines == 3

LineKinds == {"start", "cont", "anterior", "final"}

TextParsers == {"hipotecario", "comafi", "generic"}

NoCurrent == <<>>

TextRow(kind, line, detalle) == [kind |-> kind, line |-> line, detalle |-> detalle]

ScanStart == [rows |-> <<>>, current |-> NoCurrent, buffer |-> <<>>]

\* HipotecarioParser._parse_text_lines, one line: on a new match the record
\* under construction gets the buffer AS its detalle and is stored
HipotecarioLine(st, i, kind) ==
  IF kind = "start"
  THEN [rows |-> IF st.current = NoCurrent THEN st.rows
                 ELSE Append(st.rows, [st.current[1] EXCEPT !.detalle = st.buffer]),
        current |-> <<TextRow("tx", i, <<i>>)>>,
        buffer |-> IF st.current = NoCurrent THEN st.buffer ELSE <<>>]
  ELSE IF st.current # NoCurrent THEN [st EXCEPT !.buffer = Append(@, i)]
  ELSE st

\* ComafiParser._parse_text_lines, one line of the main loop
ComafiLine(st, i, kind) ==
  IF kind = "start"
  THEN [rows |-> IF st.current = NoCurrent THEN st.rows
                 ELSE Append(st.rows, [st.current[1] EXCEPT !.detalle = @ \o st.buffer]),
        current |-> <<TextRow("tx", i, <<i>>)>>,
        buffer |-> IF st.current = NoCurrent THEN st.buffer ELSE <<>>]
  ELSE IF st.current # NoCurrent THEN [st EXCEPT !.buffer = Append(@, i)]
  ELSE st

\* GenericParser._parse_from_text, one line: a line without a date gives no
\* transaction and is not kept anywhere
GenericLine(st, i, kind) ==
  IF kind = "start" THEN [st EXCEPT !.rows = Append(@, TextRow("tx", i, <<i>>))]
  ELSE st

RECURSIVE ScanLines(_, _, _, _)
ScanLines(impl, lines, i, st) ==
  IF i > Len(lines) THEN st
  ELSE ScanLines(impl, lines, i + 1,
                 CASE impl = "hipotecario" -> HipotecarioLine(st, i, lines[i])
                   [] impl = "comafi" -> ComafiLine(st, i, lines[i])
                   [] impl = "generic" -> GenericLine(st, i, lines[i]))

\* "Agregar la última transacción" after the loop (both parsers append the
\* buffer to the last record)
FlushLast(st) ==
  IF st.current = NoCurrent THEN st.rows
  ELSE Append(st.rows, [st.current[1] EXCEPT !.detalle = @ \o st.buffer])

\* ComafiParser: rows.insert(0, SALDO ANTERIOR) and rows.append(SALDO FINAL)
\* when a balance line was found
WithSaldoRows(lines, rows) ==
  (IF \E i \in DOMAIN lines : lines[i] = "anterior"
   THEN <<TextRow("anterior", 0, <<0>>)>> ELSE <<>>)
  \o rows \o
  (IF \E i \in DOMAIN lines : lines[i] = "final"
   THEN <<TextRow("final", 0, <<0>>)>> ELSE <<>>)

\* the rows a parser hands to finalize
TextRows(impl, lines) ==
  CASE impl = "hipotecario" -> FlushLast(ScanLines(impl, lines, 1, ScanStart))
    [] impl = "comafi" -> WithSaldoRows(lines, FlushLast(ScanLines(impl, lines, 1, ScanStart)))
    [] impl = "generic" -> ScanLines(impl, lines, 1, ScanStart).rows

\* BaseParser._clean_dataframe on these rows: only a transaction row has a
\* date, and a row with an empty detalle is removed
CleanText(rows) ==
  SelectSeq(rows, LAMBDA r : r.kind = "tx" /\ r.detalle # <<>>)

InitText ==
  /\ DetectIdle /\ PipeIdle /\ LegacyIdle /\ ParseIdle /\ FinIdle /\ BatchIdle
  /\ callIn \in [impl : TextParsers, lines : SeqsUpTo(LineKinds, MaxLines)]
  /\ callOut = CallPending

TextCall ==
  /\ callOut = CallPending
  /\ callOut' = [done |-> TRUE,
                 rows |-> TextRows(callIn.impl, callIn.lines),
                 emitted |-> CleanText(TextRows(callIn.impl, callIn.lines))]
  /\ UNCHANGED <<detectVars, pipeVars, legacyVars, parseVars, finVars, callIn, batchVars>>

NextText == TextCall

SpecText == InitText /\ [][NextText]_vars

\* C26: when an opening balance is found the "SALDO ANTERIOR" row is the
\* first emitted row, when a closing balance is found the "SALDO FINAL" row
\* is the last, and the transaction rows stand between them in source order.
C26_BalanceRowsFirstAndLast ==
  (callOut.done /\ callIn.impl = "comafi") =>
    LET em == callOut.emitted
        lines == callIn.lines
    IN  /\ (\E i \in DOMAIN lines : lines[i] = "anterior") =>
             (em # <<>> /\ em[1].kind = "anterior")
        /\ (\E i \in DOMAIN lines : lines[i] = "final") =>
             (em # <<>> /\ em[Len(em)].kind = "final")
        /\ \A i, j \in DOMAIN em :
             (i < j /\ em[i].kind = "tx" /\ em[j].kind = "tx") => em[i].line < em[j].line

\* the description the claim gives record start i: its own text, then the
\* texts of the date-less lines that follow up to the next record start
ClaimedDetalle(lines, i) ==
  <<i>> \o SelectSeq([k \in DOMAIN lines |-> k],
                     LAMBDA j : j > i /\ \A k \in (i + 1)..j : lines[k] # "start")

\* C27: every record-start line gives exactly one emitted record, in input
\* order, whose description is the start line's text followed by the texts
\* of its continuation lines.
C27_ContinuationLinesAccumulate ==
  callOut.done =>
    LET lines == callIn.lines
        starts == SelectSeq([k \in DOMAIN lines |-> k], LAMBDA k : lines[k] = "start")
        txs == SelectSeq(callOut.emitted, LAMBDA r : r.kind = "tx")
    IN  /\ Len(txs) = Len(starts)
        /\ \A n \in DOMAIN txs :
             /\ txs[n].line = starts[n]
             /\ txs[n].detalle = ClaimedDetalle(lines, starts[n])

\* ------------------------------------------------------------------------
\* A batch of documents: convert_route, BatchProcessor.run, pdf2xls main
\* ------------------------------------------------------------------------
\* A document is the fault it meets (none, an empty extraction, an exception
\* in the disk step that precedes extraction -- storage.save of the upload,
\* mkdir of the output directory --, an exception while it is extracted or
\* parsed, an exception while its workbook is written) and the year its
\* filename holds.
MaxBatch == 2

Drivers == {"convert", "batch", "pdf2xls"}

Faults == {"none", "empty", "store", "extract", "export"}

BatchDocs == [fault : Faults, fileYear : FileYears]

InitBatch ==
  /\ DetectIdle /\ PipeIdle /\ LegacyIdle /\ ParseIdle /\ FinIdle /\ CallIdle
  /\ batch \in { b \in [driver : Drivers, docs : SeqsUpTo(BatchDocs, MaxBatch)] :
                   b.docs # <<>> }
  /\ bpos = 1
  /\ outcomes = <<>>
  /\ inferred_year = NoYear

\* what the try/except around one document records for it
OutcomeOf(fault) ==
  CASE fault = "none" -> "ok"
    [] fault = "empty" -> "empty"
    [] OTHER -> "error"

\* bpos is the document the loop stands at; past the last one the run is
\* over, and Aborted is a run that an exception ended
Aborted == 0

Finished == bpos = Len(batch.docs) + 1

\* convert_route, one pass of its loop: storage.save(temp_path) stands before
\* the try, so its exception leaves the route and the request fails; the
\* rest is inside try/except/finally
ConvertDoc ==
  /\ batch.driver = "convert"
  /\ bpos \in DOMAIN batch.docs
  /\ LET d == batch.docs[bpos]
     IN  IF d.fault = "store"
         THEN /\ bpos' = Aborted
              /\ UNCHANGED <<outcomes, inferred_year>>
         ELSE /\ bpos' = bpos + 1
              /\ outcomes' = Append(outcomes, OutcomeOf(d.fault))
              /\ inferred_year' = extract_year_from_filename(d.fileYear)
  /\ UNCHANGED <<batch, detectVars, pipeVars, legacyVars, parseVars, finVars, callVars>>

\* BatchProcessor.run, one pass of its loop: out_dir.mkdir stands before the
\* try, so its exception leaves run(); extraction and the saving of the
\* workbook are inside one try/except that records the error.  The router
\* does not use UniversalBankExtractor.
BatchDoc ==
  /\ batch.driver = "batch"
  /\ bpos \in DOMAIN batch.docs
  /\ IF batch.docs[bpos].fault = "store"
     THEN /\ bpos' = Aborted
          /\ UNCHANGED outcomes
     ELSE /\ bpos' = bpos + 1
          /\ outcomes' = Append(outcomes, OutcomeOf(batch.docs[bpos].fault))
  /\ UNCHANGED <<batch, inferred_year, detectVars, pipeVars, legacyVars, parseVars, finVars, callVars>>

\* pdf2xls main, one pass of its loop: everything, mkdir included, is
\* inside the try
Pdf2xlsDoc ==
  /\ batch.driver = "pdf2xls"
  /\ bpos \in DOMAIN batch.docs
  /\ bpos' = bpos + 1
  /\ outcomes' = Append(outcomes, OutcomeOf(batch.docs[bpos].fault))
  /\ inferred_year' = extract_year_from_filename(batch.docs[bpos].fileYear)
  /\ UNCHANGED <<batch, detectVars, pipeVars, legacyVars, parseVars, finVars, callVars>>

NextBatch == ConvertDoc \/ BatchDoc \/ Pdf2xlsDoc

SpecBatch == InitBatch /\ [][NextBatch]_vars

\* C24: the failure of one document gives a failed outcome for that document
\* only: the run is never abandoned, and at its end every document has
\* exactly one outcome, a document without fault the outcome "ok".
C24_FailureIsolatedPerDocument ==
  /\ bpos # Aborted
  /\ Finished =>
       /\ Len(outcomes) = Len(batch.docs)
       /\ \A i \in DOMAIN batch.docs :
            batch.docs[i].fault = "none" => outcomes[i] = "ok"

\* ------------------------------------------------------------------------
\* One UniversalBankExtractor used for several documents at a time
\* ------------------------------------------------------------------------
\* extract_from_pdf of document k first stores the year of its filename in
\* self.inferred_year and later, while its rows are parsed, reads it to
\* complete "dd/mm" dates.  Calls on one instance may interleave.
InitShared ==
  /\ DetectIdle /\ PipeIdle /\ LegacyIdle /\ ParseIdle /\ FinIdle /\ CallIdle
  /\ \E n \in 2..(MaxBatch + 1) :
       /\ batch \in [driver : {"shared"}, docs : [1..n -> FileYears]]
       /\ bpos = [k \in 1..n |-> "new"]
       /\ outcomes = [k \in 1..n |-> NoYear]
  /\ inferred_year = NoYear

\* extract_from_pdf, line 45
BeginExtract(k) ==
  /\ bpos[k] = "new"
  /\ bpos' = [bpos EXCEPT ![k] = "begun"]
  /\ inferred_year' = extract_year_from_filename(batch.docs[k])
  /\ UNCHANGED <<batch, outcomes, detectVars, pipeVars, legacyVars, parseVars, finVars, callVars>>

\* _normalize_date of a "05/03" row of document k
NormalizeDates(k) ==
  /\ bpos[k] = "begun"
  /\ bpos' = [bpos EXCEPT ![k] = "done"]
  /\ outcomes' = [outcomes EXCEPT ![k] = UBE_normalize_day_month(5, 3, inferred_year).y]
  /\ UNCHANGED <<batch, inferred_year, detectVars, pipeVars, legacyVars, parseVars, finVars, callVars>>

NextShared == \E k \in DOMAIN batch.docs : BeginExtract(k) \/ NormalizeDates(k)

SpecShared == InitShared /\ [][NextShared]_vars

\* C25: the year that completes a day/month date of a document comes from
\* that document's own filename hint or is the current year, whatever the
\* order or interleaving of the documents; it is never the year of another
\* document.  (NoYear: the date was left without a year.)
C25_YearFromOwnDocument ==
  batch.driver = "shared" =>
    \A k \in DOMAIN batch.docs :
      bpos[k] = "done" => outcomes[k] \in {batch.docs[k], CurrentYear, NoYear}

====
